---- MODULE Spec2Model ----
(***************************************************************************)
(* Model of the message bus of src/main.py: MessageBus (subscribe,         *)
(* unsubscribe, publish, get_stats), the bounded mailboxes                 *)
(* (queue.Queue(maxsize=...)) of the Consumers, the Producer threads that  *)
(* call publish and the Consumer threads that call get.                    *)
(*                                                                         *)
(* publish is modelled step by step: acquiring the lock together with the  *)
(* counter increment and the lookup of the subscriber list, then one step  *)
(* per sub_queue.put(message) of the loop (a put on a full queue blocks,   *)
(* i.e. is not enabled), then leaving the with-block, which releases the   *)
(* lock.  subscribe, unsubscribe and get_stats never block inside their    *)
(* with-block, so each is one atomic step that needs the lock to be free.  *)
(*                                                                         *)
(* Spec is the program.  SpecUnsub, SpecDup, SpecGet, SpecInvalid and       *)
(* SpecStats are the same program with a history variable that records the *)
(* outcome of the calls a property speaks about, and with the callers that *)
(* property needs (timed-out gets, calls with an invalid type, the thread   *)
(* that reads the statistics).  SpecCalls and SpecFrame record every        *)
(* subscribe and unsubscribe call, SpecDrain has a Producer that publishes *)
(* more than a Consumer processes and its mailbox holds, and SpecPipeline  *)
(* is demo_pipeline: a Producer, the ProcessingConsumer and its two        *)
(* unbounded mailboxes.                                                    *)
(***************************************************************************)
EXTENDS Integers, Sequences, FiniteSets, TLC

\* ------------------------------------------------------------------ bounds
\* Publish calls made in all, by all threads together.
MaxPublish == 2
\* Messages each Consumer processes before it stops (Consumer.count).
ConsumerCount == 3
\* Capacity of a Consumer's mailbox (queue.Queue(maxsize=20), scaled down).
QueueMaxsize == 1

\* --------------------------------------------------------------- constants
\* class MessageType(Enum): the closed set of message types.
MessageType == {"ORDER", "PAYMENT", "INVENTORY", "SHIPPING", "NOTIFICATION"}

\* The types the clients of the model use.
UsedTypes == {"ORDER", "PAYMENT"}

\* Values that are not members of MessageType: a member of another Enum
\* (it has a .value attribute and is hashable) and a plain string (hashable,
\* no .value attribute).
InvalidTypes == {"FOREIGN_ENUM", "STR"}

\* Message.__str__ reads self.msg_type.value.
HasValue(t) == t \in MessageType \/ t = "FOREIGN_ENUM"

\* Producer threads and Consumer threads; a Consumer is identified with its
\* message_queue.
Producers == {"p1", "p2"}
Consumers == {"c1", "c2"}

\* threading.Lock(): the owner, or Free.
Free == "free"

\* queue.Empty
Empty == "Empty"

\* No call with an invalid type was made yet.
NoCall == [op |-> "none", msg_type |-> "none", outcome |-> "none"]

\* The last step was no call of subscribe or unsubscribe.
NoRegistryCall == [op |-> "none", msg_type |-> "none", queue |-> "none",
                   present |-> FALSE]

\* A Message: msg_type, content and sender as in Message.__init__; seq is the
\* publish number "#n" that line 71 prints for it (0 before it is published).
NoMessage == [msg_type |-> "none", content |-> 0, sender |-> "none", seq |-> 0]

\* ----------------------------------------------------------------- helpers
Range(s) == {s[i] : i \in 1..Len(s)}

\* x in list
Contains(s, x) == x \in Range(s)

\* list.remove(x): removes the first occurrence of x.
FirstIndex(s, x) == CHOOSE i \in 1..Len(s) : s[i] = x /\ \A j \in 1..(i - 1) : s[j] # x

\* list.pop() in the place of list.remove(x): the last element goes.
ListPop(s, x) == SubSeq(s, 1, Len(s) - 1)

ListRemove(s, x) ==
    LET k == FirstIndex(s, x)
    IN  [i \in 1..(Len(s) - 1) |-> IF i < k THEN s[i] ELSE s[i + 1]]

\* list.insert(0, x) in the place of list.append(x).
ListPrepend(s, x) == <<x>> \o s

\* list.append(x)
ListAppend(s, x) == Append(s, x)

\* queue.Queue.put on a queue with room: the item goes to the tail.
QueuePut(q, m) == Append(q, m)

\* full() that lets one item more in.
QueueFullOffByOne(q) == Len(q) > QueueMaxsize

\* full() of a queue.Queue(): maxsize <= 0, never full.
QueueNeverFull(q) == FALSE

\* queue.Queue.full() for maxsize > 0.
QueueFull(q) == Len(q) >= QueueMaxsize

\* self.subscribers.get(message.msg_type, [])
SubscribersGet(subs, t) == IF t \in DOMAIN subs THEN subs[t] ELSE <<>>

\* self.message_count += 1
Increment(n) == n + 1

VARIABLES
    subscribers,    \* MessageBus.subscribers: MessageType -> list of queues
    lock,           \* MessageBus.lock: owner or Free
    message_count,  \* MessageBus.message_count
    message_queue,  \* Consumer.message_queue: contents of each mailbox
    consumed,       \* Consumer.run: consumed
    got,            \* Consumer.run: message, the last message get returned
    seen,           \* history: the last message of each type get returned
    produced,       \* Producer.run: i, the messages created so far
    pc,             \* where each publishing thread is
    message,        \* Producer.run: message, the message last handed to publish
    loaded,         \* publish: the value "+= 1" has read from message_count
    idx,            \* publish: position of the for loop in the list
    stats_pc,       \* the thread of demo_complex lines 242-243
    stats,          \* the dict get_stats returned to it
    total,          \* the bus.message_count it read after that
    unsubscribed,   \* history: the pairs whose last call was unsubscribe
    duplicated,     \* history: the pairs subscribed again while registered
    last_get,       \* history: outcome of each Consumer's last get
    lastInvalid,    \* history: the last call with a type outside MessageType
    matched,        \* history: stats and message_count held together
    called          \* history: the subscribe or unsubscribe call of the last step

busVars == <<subscribers, lock, message_count>>
producerVars == <<produced, pc, message, loaded, idx>>
consumerVars == <<consumed, got, seen>>
statsVars == <<stats_pc, stats, total>>
histVars == <<unsubscribed, duplicated, last_get, lastInvalid, matched, called>>

vars == <<busVars, message_queue, consumerVars, producerVars, statsVars, histVars>>

\* ------------------------------------------------------------------- Init
Init ==
    /\ subscribers = [t \in MessageType |-> <<>>]
    /\ lock = Free
    /\ message_count = 0
    /\ message_queue = [c \in Consumers |-> <<>>]
    /\ consumed = [c \in Consumers |-> 0]
    /\ got = [c \in Consumers |-> NoMessage]
    /\ seen = [c \in Consumers |-> [t \in UsedTypes |-> NoMessage]]
    /\ produced = [p \in Producers |-> 0]
    /\ pc = [p \in Producers |-> "idle"]
    /\ message = [p \in Producers |-> NoMessage]
    /\ loaded = [p \in Producers |-> 0]
    /\ idx = [p \in Producers |-> 0]
    /\ stats_pc = "idle"
    /\ stats = [t \in MessageType |-> 0]
    /\ total = 0
    /\ unsubscribed = {}
    /\ duplicated = {}
    /\ last_get = [c \in Consumers |-> "none"]
    /\ lastInvalid = NoCall
    /\ matched = FALSE
    /\ called = NoRegistryCall

\* ------------------------------------------------------------ MessageBus
\* Subscribe without the "not in" test of line 55.
SubscribeAlways(t, q) ==
    /\ lock = Free
    /\ subscribers' = IF t \in DOMAIN subscribers
                      THEN [subscribers EXCEPT ![t] = ListAppend(@, q)]
                      ELSE subscribers
    /\ UNCHANGED <<lock, message_count, message_queue, consumerVars, producerVars,
                   statsVars>>

\* Subscribe that moves a queue that is in the list to the end of the list.
SubscribeMoveToEnd(t, q) ==
    /\ lock = Free
    /\ subscribers' = IF t \in DOMAIN subscribers
                      THEN [subscribers EXCEPT ![t] =
                              ListAppend(IF Contains(@, q) THEN ListRemove(@, q) ELSE @, q)]
                      ELSE subscribers
    /\ UNCHANGED <<lock, message_count, message_queue, consumerVars, producerVars,
                   statsVars>>

\* Subscribe without "with self.lock".
SubscribeUnlocked(t, q) ==
    /\ subscribers' = IF t \in DOMAIN subscribers /\ ~Contains(subscribers[t], q)
                      THEN [subscribers EXCEPT ![t] = ListAppend(@, q)]
                      ELSE subscribers
    /\ UNCHANGED <<lock, message_count, message_queue, consumerVars, producerVars,
                   statsVars>>

\* subscribe(msg_type, subscriber_queue): self.subscribers[msg_type] raises
\* KeyError for a key that is not in the dict, and nothing changes.
Subscribe(t, q) ==
    /\ lock = Free
    /\ subscribers' = IF t \in DOMAIN subscribers /\ ~Contains(subscribers[t], q)
                      THEN [subscribers EXCEPT ![t] = ListAppend(@, q)]
                      ELSE subscribers
    /\ UNCHANGED <<lock, message_count, message_queue, consumerVars, producerVars,
                   statsVars>>

\* Unsubscribe that takes the queue out of the list of every type.
UnsubscribeEverywhere(t, q) ==
    /\ lock = Free
    /\ subscribers' = [u \in DOMAIN subscribers |->
                         IF Contains(subscribers[u], q)
                         THEN ListRemove(subscribers[u], q) ELSE subscribers[u]]
    /\ UNCHANGED <<lock, message_count, message_queue, consumerVars, producerVars,
                   statsVars>>

\* unsubscribe(msg_type, subscriber_queue): KeyError likewise.
Unsubscribe(t, q) ==
    /\ lock = Free
    /\ subscribers' = IF t \in DOMAIN subscribers /\ Contains(subscribers[t], q)
                      THEN [subscribers EXCEPT ![t] = ListRemove(@, q)]
                      ELSE subscribers
    /\ UNCHANGED <<lock, message_count, message_queue, consumerVars, producerVars,
                   statsVars>>

\* The number of publish calls made so far.
RECURSIVE SumOver(_, _)
SumOver(f, S) == IF S = {} THEN 0
                 ELSE LET x == CHOOSE y \in S : TRUE IN f[x] + SumOver(f, S \ {x})

Calls == SumOver(produced, Producers)

\* PublishAcquire without "with self.lock".
PublishAcquireUnlocked(p, t) ==
    /\ pc[p] \in {"idle", "returned"}
    /\ Calls < MaxPublish
    /\ produced' = [produced EXCEPT ![p] = @ + 1]
    /\ message' = [message EXCEPT ![p] =
                     [msg_type |-> t, content |-> produced[p] + 1, sender |-> p,
                      seq |-> 0]]
    /\ loaded' = [loaded EXCEPT ![p] = message_count]
    /\ pc' = [pc EXCEPT ![p] = "count"]
    /\ UNCHANGED <<busVars, message_queue, consumerVars, idx, statsVars>>

\* PublishAcquire with one lock per message type: a publish waits only for
\* a publish of its own type.
PublishAcquireSharded(p, t) ==
    /\ pc[p] \in {"idle", "returned"}
    /\ Calls < MaxPublish
    /\ \A r \in Producers \ {p} :
          pc[r] \in {"count", "dispatch"} => message[r].msg_type # t
    /\ lock' = p
    /\ produced' = [produced EXCEPT ![p] = @ + 1]
    /\ message' = [message EXCEPT ![p] =
                     [msg_type |-> t, content |-> produced[p] + 1, sender |-> p,
                      seq |-> 0]]
    /\ loaded' = [loaded EXCEPT ![p] = message_count]
    /\ pc' = [pc EXCEPT ![p] = "count"]
    /\ UNCHANGED <<subscribers, message_count, message_queue, consumerVars, idx,
                   statsVars>>

\* A thread creates Message(msg_type, content, name) (Producer.run line 107)
\* and calls publish, which enters "with self.lock" and starts
\* "self.message_count += 1" by reading the counter.
PublishAcquire(p, t) ==
    /\ pc[p] \in {"idle", "returned"}
    /\ Calls < MaxPublish
    /\ lock = Free
    /\ lock' = p
    /\ produced' = [produced EXCEPT ![p] = @ + 1]
    /\ message' = [message EXCEPT ![p] =
                     [msg_type |-> t, content |-> produced[p] + 1, sender |-> p,
                      seq |-> 0]]
    /\ loaded' = [loaded EXCEPT ![p] = message_count]
    /\ pc' = [pc EXCEPT ![p] = "count"]
    /\ UNCHANGED <<subscribers, message_count, message_queue, consumerVars, idx,
                   statsVars>>

\* Producer.run with its own count: "for i in range(self.count)" creates
\* Message(msg_type, content, name) and calls publish, which enters "with
\* self.lock" and reads the counter.
ProducerPublish(p, t, count) ==
    /\ pc[p] \in {"idle", "returned"}
    /\ produced[p] < count
    /\ lock = Free
    /\ lock' = p
    /\ produced' = [produced EXCEPT ![p] = @ + 1]
    /\ message' = [message EXCEPT ![p] =
                     [msg_type |-> t, content |-> produced[p] + 1, sender |-> p,
                      seq |-> 0]]
    /\ loaded' = [loaded EXCEPT ![p] = message_count]
    /\ pc' = [pc EXCEPT ![p] = "count"]
    /\ UNCHANGED <<subscribers, message_count, message_queue, consumerVars, idx,
                   statsVars>>

\* PublishCount with the with-block ending before the loop: the lock is
\* released once the counter is stored and the list looked up.
PublishCountThenRelease(p) ==
    /\ pc[p] = "count"
    /\ message_count' = Increment(loaded[p])
    /\ message' = [message EXCEPT ![p].seq = Increment(loaded[p])]
    /\ loaded' = [loaded EXCEPT ![p] = 0]
    /\ lock' = Free
    /\ IF HasValue(message[p].msg_type)
       THEN /\ pc' = [pc EXCEPT ![p] = "dispatch"]
            /\ idx' = [idx EXCEPT ![p] = 1]
       ELSE /\ pc' = [pc EXCEPT ![p] = "raised"]
            /\ UNCHANGED idx
    /\ UNCHANGED <<subscribers, message_queue, consumerVars, produced, statsVars>>

\* "+= 1" stores the incremented value; the list is looked up and line 71
\* prints "#{message_count}: {message}".  Message.__str__ reads
\* msg_type.value: without that attribute it raises, the with-block releases
\* the lock and the exception ends the call (and the thread).
PublishCount(p) ==
    /\ pc[p] = "count"
    /\ message_count' = Increment(loaded[p])
    /\ message' = [message EXCEPT ![p].seq = Increment(loaded[p])]
    /\ loaded' = [loaded EXCEPT ![p] = 0]
    /\ IF HasValue(message[p].msg_type)
       THEN /\ pc' = [pc EXCEPT ![p] = "dispatch"]
            /\ idx' = [idx EXCEPT ![p] = 1]
            /\ UNCHANGED lock
       ELSE /\ pc' = [pc EXCEPT ![p] = "raised"]
            /\ lock' = Free
            /\ UNCHANGED idx
    /\ UNCHANGED <<subscribers, message_queue, consumerVars, produced, statsVars>>

\* PublishPut with put_nowait and the queue.Full exception swallowed: a full
\* mailbox is passed over.
PublishPutDrop(p) ==
    LET subs == SubscribersGet(subscribers, message[p].msg_type)
    IN  /\ pc[p] = "dispatch"
        /\ idx[p] <= Len(subs)
        /\ message_queue' = IF QueueFull(message_queue[subs[idx[p]]])
                            THEN message_queue
                            ELSE [message_queue EXCEPT
                                    ![subs[idx[p]]] = QueuePut(@, message[p])]
        /\ idx' = [idx EXCEPT ![p] = @ + 1]
        /\ UNCHANGED <<busVars, consumerVars, produced, pc, message, loaded,
                       statsVars>>

\* One iteration of "for sub_queue in subscribers: sub_queue.put(message)";
\* put blocks while the queue is full.
PublishPut(p) ==
    LET subs == SubscribersGet(subscribers, message[p].msg_type)
    IN  /\ pc[p] = "dispatch"
        /\ idx[p] <= Len(subs)
        /\ ~QueueFull(message_queue[subs[idx[p]]])
        /\ message_queue' = [message_queue EXCEPT
                               ![subs[idx[p]]] = QueuePut(@, message[p])]
        /\ idx' = [idx EXCEPT ![p] = @ + 1]
        /\ UNCHANGED <<busVars, consumerVars, produced, pc, message, loaded,
                       statsVars>>

\* PublishReturn with the loop left one iteration early.
PublishReturnEarly(p) ==
    /\ pc[p] = "dispatch"
    /\ idx[p] >= Len(SubscribersGet(subscribers, message[p].msg_type))
    /\ lock' = Free
    /\ pc' = [pc EXCEPT ![p] = "returned"]
    /\ idx' = [idx EXCEPT ![p] = 0]
    /\ UNCHANGED <<subscribers, message_count, message_queue, consumerVars,
                   produced, message, loaded, statsVars>>

\* The loop is exhausted: the with-block ends, the lock is released and
\* publish returns.
PublishReturn(p) ==
    /\ pc[p] = "dispatch"
    /\ idx[p] > Len(SubscribersGet(subscribers, message[p].msg_type))
    /\ lock' = Free
    /\ pc' = [pc EXCEPT ![p] = "returned"]
    /\ idx' = [idx EXCEPT ![p] = 0]
    /\ UNCHANGED <<subscribers, message_count, message_queue, consumerVars,
                   produced, message, loaded, statsVars>>

\* get_stats(): the number of subscribers of every type, read under the lock.
GetStats ==
    /\ stats_pc = "idle"
    /\ lock = Free
    /\ stats' = [t \in MessageType |-> Len(subscribers[t])]
    /\ stats_pc' = "printed"
    /\ UNCHANGED <<busVars, message_queue, consumerVars, producerVars, total>>

\* demo_complex line 243: bus.message_count is read without the lock.
ReadCount ==
    /\ stats_pc = "printed"
    /\ total' = message_count
    /\ stats_pc' = "done"
    /\ UNCHANGED <<busVars, message_queue, consumerVars, producerVars, stats>>

\* ---------------------------------------------------------------- Consumer
\* Consumer.run: message_queue.get(timeout=2) returns the oldest message and
\* consumed is incremented.
Get(c) ==
    /\ consumed[c] < ConsumerCount
    /\ message_queue[c] # <<>>
    /\ got' = [got EXCEPT ![c] = Head(message_queue[c])]
    /\ seen' = [seen EXCEPT ![c] =
                  IF Head(message_queue[c]).msg_type \in UsedTypes
                  THEN [@ EXCEPT ![Head(message_queue[c]).msg_type] = Head(message_queue[c])]
                  ELSE @]
    /\ message_queue' = [message_queue EXCEPT ![c] = Tail(@)]
    /\ consumed' = [consumed EXCEPT ![c] = @ + 1]
    /\ UNCHANGED <<busVars, producerVars, statsVars>>

\* GetEmpty with "consumed += 1" reached in the except branch too.
GetEmptyCounted(c) ==
    /\ consumed[c] < ConsumerCount
    /\ message_queue[c] = <<>>
    /\ consumed' = [consumed EXCEPT ![c] = @ + 1]
    /\ UNCHANGED <<busVars, message_queue, got, seen, producerVars, statsVars>>

\* Consumer.run: the queue stays empty for the timeout, get raises queue.Empty
\* and the loop goes on.
GetEmpty(c) ==
    /\ consumed[c] < ConsumerCount
    /\ message_queue[c] = <<>>
    /\ UNCHANGED <<busVars, message_queue, consumerVars, producerVars, statsVars>>

\* ------------------------------------------------------ ProcessingConsumer
\* demo_pipeline: the ProcessingConsumer thread (the sender of the messages it
\* republishes), its input and output types, its own message_queue (mailbox
\* A, subscribed to the input type) and mailbox B, subscribed to the output
\* type.  Both queues are queue.Queue(): unbounded.
ProcessingConsumer == "p2"
input_type == "ORDER"
output_type == "PAYMENT"
MailboxA == "c1"
MailboxB == "c2"

\* new_content = f"已处理-{message.content}": the prefix takes the content out
\* of the contents the Producer creates (1..ConsumerCount: demo_pipeline gives
\* the Producer and the ProcessingConsumer the same count) and keeps it apart
\* from every other derived content.
NewContent(content) == content + ConsumerCount

\* The state after the constructors of demo_pipeline: each mailbox is
\* subscribed, no thread has run.
InitPipeline ==
    /\ subscribers = [t \in MessageType |->
                        IF t = input_type THEN <<MailboxA>>
                        ELSE IF t = output_type THEN <<MailboxB>> ELSE <<>>]
    /\ lock = Free
    /\ message_count = 0
    /\ message_queue = [c \in Consumers |-> <<>>]
    /\ consumed = [c \in Consumers |-> 0]
    /\ got = [c \in Consumers |-> NoMessage]
    /\ seen = [c \in Consumers |-> [t \in UsedTypes |-> NoMessage]]
    /\ produced = [p \in Producers |-> 0]
    /\ pc = [p \in Producers |-> "idle"]
    /\ message = [p \in Producers |-> NoMessage]
    /\ loaded = [p \in Producers |-> 0]
    /\ idx = [p \in Producers |-> 0]
    /\ stats_pc = "idle"
    /\ stats = [t \in MessageType |-> 0]
    /\ total = 0
    /\ unsubscribed = {}
    /\ duplicated = {}
    /\ last_get = [c \in Consumers |-> "none"]
    /\ lastInvalid = NoCall
    /\ matched = FALSE
    /\ called = NoRegistryCall

\* ProcessingConsumer.run: message_queue.get(timeout=3) returns the oldest
\* message; processed (consumed[MailboxA]) is incremented only after the
\* publish.
ProcessorGet ==
    /\ pc[ProcessingConsumer] = "idle"
    /\ consumed[MailboxA] < ConsumerCount
    /\ message_queue[MailboxA] # <<>>
    /\ got' = [got EXCEPT ![MailboxA] = Head(message_queue[MailboxA])]
    /\ seen' = [seen EXCEPT ![MailboxA][Head(message_queue[MailboxA]).msg_type] =
                  Head(message_queue[MailboxA])]
    /\ message_queue' = [message_queue EXCEPT ![MailboxA] = Tail(@)]
    /\ pc' = [pc EXCEPT ![ProcessingConsumer] = "got"]
    /\ UNCHANGED <<busVars, consumed, produced, message, loaded, idx, statsVars>>

\* The queue stays empty for the timeout: get raises queue.Empty and the
\* except branch leaves the loop (break); the thread ends.
ProcessorBreak ==
    /\ pc[ProcessingConsumer] = "idle"
    /\ consumed[MailboxA] < ConsumerCount
    /\ message_queue[MailboxA] = <<>>
    /\ pc' = [pc EXCEPT ![ProcessingConsumer] = "finished"]
    /\ UNCHANGED <<busVars, message_queue, consumerVars, produced, message,
                   loaded, idx, statsVars>>

\* "while processed < self.count" is false: the thread ends.
ProcessorExit ==
    /\ pc[ProcessingConsumer] = "idle"
    /\ consumed[MailboxA] >= ConsumerCount
    /\ pc' = [pc EXCEPT ![ProcessingConsumer] = "finished"]
    /\ UNCHANGED <<busVars, message_queue, consumerVars, produced, message,
                   loaded, idx, statsVars>>

\* new_message = Message(output_type, new_content, name) and the call of
\* publish, up to the read of the counter under the lock.
ProcessorPublish ==
    /\ pc[ProcessingConsumer] = "got"
    /\ lock = Free
    /\ lock' = ProcessingConsumer
    /\ message' = [message EXCEPT ![ProcessingConsumer] =
                     [msg_type |-> output_type,
                      content |-> NewContent(got[MailboxA].content),
                      sender |-> ProcessingConsumer, seq |-> 0]]
    /\ loaded' = [loaded EXCEPT ![ProcessingConsumer] = message_count]
    /\ pc' = [pc EXCEPT ![ProcessingConsumer] = "count"]
    /\ UNCHANGED <<subscribers, message_count, message_queue, consumerVars,
                   produced, idx, statsVars>>

\* One iteration of the loop of publish into a queue.Queue(): put never
\* blocks.
PutUnbounded(p) ==
    LET subs == SubscribersGet(subscribers, message[p].msg_type)
    IN  /\ pc[p] = "dispatch"
        /\ idx[p] <= Len(subs)
        /\ message_queue' = [message_queue EXCEPT
                               ![subs[idx[p]]] = QueuePut(@, message[p])]
        /\ idx' = [idx EXCEPT ![p] = @ + 1]
        /\ UNCHANGED <<busVars, consumerVars, produced, pc, message, loaded,
                       statsVars>>

\* publish has returned: processed += 1, back to the test of the loop.
ProcessorProcessed ==
    /\ pc[ProcessingConsumer] = "returned"
    /\ consumed' = [consumed EXCEPT ![MailboxA] = @ + 1]
    /\ pc' = [pc EXCEPT ![ProcessingConsumer] = "idle"]
    /\ UNCHANGED <<busVars, message_queue, got, seen, produced, message, loaded,
                   idx, statsVars>>

\* ------------------------------------------------------- the specifications
\* The program with valid message types.  A timed-out get changes no variable
\* of the program, so it is a stuttering step of Spec.
Next ==
    \/ \E t \in UsedTypes, q \in Consumers : Subscribe(t, q) /\ UNCHANGED histVars
    \/ \E t \in UsedTypes, q \in Consumers : Unsubscribe(t, q) /\ UNCHANGED histVars
    \/ \E p \in Producers, t \in UsedTypes : PublishAcquire(p, t) /\ UNCHANGED histVars
    \/ \E p \in Producers : PublishCount(p) /\ UNCHANGED histVars
    \/ \E p \in Producers : PublishPut(p) /\ UNCHANGED histVars
    \/ \E p \in Producers : PublishReturn(p) /\ UNCHANGED histVars
    \/ \E c \in Consumers : Get(c) /\ UNCHANGED histVars

Spec == Init /\ [][Next]_vars

\* One Producer, and the unsubscribe calls recorded: unsubscribed holds the
\* pairs <<type, queue>> for which unsubscribe has returned and subscribe has
\* not been called since.
OneProducer == {"p1"}

RecordUnsubscribed(set) ==
    /\ unsubscribed' = set
    /\ UNCHANGED <<duplicated, last_get, lastInvalid, matched, called>>

NextUnsub ==
    \/ \E t \in UsedTypes, q \in Consumers :
          Subscribe(t, q) /\ RecordUnsubscribed(unsubscribed \ {<<t, q>>})
    \/ \E t \in UsedTypes, q \in Consumers :
          Unsubscribe(t, q) /\ RecordUnsubscribed(unsubscribed \cup {<<t, q>>})
    \/ \E p \in OneProducer, t \in UsedTypes : PublishAcquire(p, t) /\ UNCHANGED histVars
    \/ \E p \in OneProducer : PublishCount(p) /\ UNCHANGED histVars
    \/ \E p \in OneProducer : PublishPut(p) /\ UNCHANGED histVars
    \/ \E p \in OneProducer : PublishReturn(p) /\ UNCHANGED histVars
    \/ \E c \in Consumers : Get(c) /\ UNCHANGED histVars

SpecUnsub == Init /\ [][NextUnsub]_vars

\* One Producer, and the repeated subscribe calls recorded: duplicated holds
\* the pairs for which subscribe was called while the queue was in the list
\* (the test of line 55 failed) and unsubscribe has not been called since.
RecordDuplicated(set) ==
    /\ duplicated' = set
    /\ UNCHANGED <<unsubscribed, last_get, lastInvalid, matched, called>>

NextDup ==
    \/ \E t \in UsedTypes, q \in Consumers :
          Subscribe(t, q) /\ RecordDuplicated(IF Contains(subscribers[t], q)
                                              THEN duplicated \cup {<<t, q>>}
                                              ELSE duplicated)
    \/ \E t \in UsedTypes, q \in Consumers :
          Unsubscribe(t, q) /\ RecordDuplicated(duplicated \ {<<t, q>>})
    \/ \E p \in OneProducer, t \in UsedTypes : PublishAcquire(p, t) /\ UNCHANGED histVars
    \/ \E p \in OneProducer : PublishCount(p) /\ UNCHANGED histVars
    \/ \E p \in OneProducer : PublishPut(p) /\ UNCHANGED histVars
    \/ \E p \in OneProducer : PublishReturn(p) /\ UNCHANGED histVars
    \/ \E c \in Consumers : Get(c) /\ UNCHANGED histVars

SpecDup == Init /\ [][NextDup]_vars

\* One Producer, and the outcome of every get recorded: a message, or Empty.
RecordGet(c, result) ==
    /\ last_get' = [last_get EXCEPT ![c] = result]
    /\ UNCHANGED <<unsubscribed, duplicated, lastInvalid, matched, called>>

NextGet ==
    \/ \E t \in UsedTypes, q \in Consumers : Subscribe(t, q) /\ UNCHANGED histVars
    \/ \E t \in UsedTypes, q \in Consumers : Unsubscribe(t, q) /\ UNCHANGED histVars
    \/ \E p \in OneProducer, t \in UsedTypes : PublishAcquire(p, t) /\ UNCHANGED histVars
    \/ \E p \in OneProducer : PublishCount(p) /\ UNCHANGED histVars
    \/ \E p \in OneProducer : PublishPut(p) /\ UNCHANGED histVars
    \/ \E p \in OneProducer : PublishReturn(p) /\ UNCHANGED histVars
    \/ \E c \in Consumers : Get(c) /\ RecordGet(c, "message")
    \/ \E c \in Consumers : GetEmpty(c) /\ RecordGet(c, Empty)

SpecGet == Init /\ [][NextGet]_vars

\* The program with callers that pass a type outside MessageType, and the
\* outcome of each such call recorded.
RecordInvalid(op, t, outcome) ==
    /\ lastInvalid' = IF t \in MessageType THEN lastInvalid
                      ELSE [op |-> op, msg_type |-> t, outcome |-> outcome]
    /\ UNCHANGED <<unsubscribed, duplicated, last_get, matched, called>>

\* self.subscribers[msg_type] of lines 55 and 62
LookupOutcome(t) == IF t \in DOMAIN subscribers THEN "returned" ELSE "raised"

AllTypes == UsedTypes \cup InvalidTypes

NextInvalid ==
    \/ \E t \in AllTypes, q \in Consumers :
          Subscribe(t, q) /\ RecordInvalid("subscribe", t, LookupOutcome(t))
    \/ \E t \in AllTypes, q \in Consumers :
          Unsubscribe(t, q) /\ RecordInvalid("unsubscribe", t, LookupOutcome(t))
    \/ \E p \in Producers, t \in AllTypes : PublishAcquire(p, t) /\ UNCHANGED histVars
    \/ \E p \in Producers :
          PublishCount(p) /\ IF pc'[p] = "raised"
                             THEN RecordInvalid("publish", message[p].msg_type, "raised")
                             ELSE UNCHANGED histVars
    \/ \E p \in Producers : PublishPut(p) /\ UNCHANGED histVars
    \/ \E p \in Producers :
          PublishReturn(p) /\ RecordInvalid("publish", message[p].msg_type, "returned")
    \/ \E c \in Consumers : Get(c) /\ UNCHANGED histVars

SpecInvalid == Init /\ [][NextInvalid]_vars

\* One Producer and the thread that prints the statistics.  From get_stats
\* until message_count is read, matched records whether the bus has been in
\* a state with the subscriber counts of stats and, at the same time, the
\* current value of message_count.
Counts(subs) == [t \in MessageType |-> Len(subs[t])]

RecordMatch ==
    /\ matched' = IF stats_pc' = "printed"
                  THEN \/ stats' = Counts(subscribers')
                       \/ matched /\ message_count' = message_count
                  ELSE matched
    /\ UNCHANGED <<unsubscribed, duplicated, last_get, lastInvalid, called>>

NextStats ==
    \/ \E t \in UsedTypes, q \in Consumers : Subscribe(t, q) /\ RecordMatch
    \/ \E t \in UsedTypes, q \in Consumers : Unsubscribe(t, q) /\ RecordMatch
    \/ \E p \in OneProducer, t \in UsedTypes : PublishAcquire(p, t) /\ RecordMatch
    \/ \E p \in OneProducer : PublishCount(p) /\ RecordMatch
    \/ \E p \in OneProducer : PublishPut(p) /\ RecordMatch
    \/ \E p \in OneProducer : PublishReturn(p) /\ RecordMatch
    \/ \E c \in Consumers : Get(c) /\ RecordMatch
    \/ GetStats /\ RecordMatch
    \/ ReadCount /\ UNCHANGED histVars

SpecStats == Init /\ [][NextStats]_vars

\* demo_pipeline: one Producer of the input type with the count of the
\* ProcessingConsumer (lines 291 and 293), the ProcessingConsumer and mailbox
\* B, which holds what the pipeline has republished.
NextPipeline ==
    \/ \E p \in OneProducer :
          ProducerPublish(p, input_type, ConsumerCount) /\ UNCHANGED histVars
    \/ \E p \in Producers : PublishCount(p) /\ UNCHANGED histVars
    \/ \E p \in Producers : PutUnbounded(p) /\ UNCHANGED histVars
    \/ \E p \in OneProducer : PublishReturn(p) /\ UNCHANGED histVars
    \/ ProcessorGet /\ UNCHANGED histVars
    \/ ProcessorBreak /\ UNCHANGED histVars
    \/ ProcessorExit /\ UNCHANGED histVars
    \/ ProcessorPublish /\ UNCHANGED histVars
    \/ PublishReturn(ProcessingConsumer) /\ UNCHANGED histVars
    \/ ProcessorProcessed /\ UNCHANGED histVars

SpecPipeline == InitPipeline /\ [][NextPipeline]_vars

\* One Producer whose count is larger than what a Consumer processes and its
\* mailbox holds together, so that a Consumer can reach its count and end
\* while its mailbox is registered and publishes go on; timed-out gets
\* recorded as in SpecGet.
OverflowCount == ConsumerCount + QueueMaxsize + 1

NextDrain ==
    \/ \E t \in UsedTypes, q \in Consumers : Subscribe(t, q) /\ UNCHANGED histVars
    \/ \E p \in OneProducer, t \in UsedTypes :
          ProducerPublish(p, t, OverflowCount) /\ UNCHANGED histVars
    \/ \E p \in OneProducer : PublishCount(p) /\ UNCHANGED histVars
    \/ \E p \in OneProducer : PublishPut(p) /\ UNCHANGED histVars
    \/ \E p \in OneProducer : PublishReturn(p) /\ UNCHANGED histVars
    \/ \E c \in Consumers : Get(c) /\ RecordGet(c, "message")
    \/ \E c \in Consumers : GetEmpty(c) /\ RecordGet(c, Empty)

SpecDrain == Init /\ [][NextDrain]_vars

\* One Producer, and the registry calls recorded: called is the subscribe or
\* unsubscribe call the last step made, with its arguments and with whether
\* the queue was in the list of the type when the call was made, and
\* NoRegistryCall after every other step.
RecordCall(call) ==
    /\ called' = call
    /\ UNCHANGED <<unsubscribed, duplicated, last_get, lastInvalid, matched>>

RegistryCall(op, t, q) ==
    [op |-> op, msg_type |-> t, queue |-> q, present |-> Contains(subscribers[t], q)]

NextCalls ==
    \/ \E t \in UsedTypes, q \in Consumers :
          Subscribe(t, q) /\ RecordCall(RegistryCall("subscribe", t, q))
    \/ \E t \in UsedTypes, q \in Consumers :
          Unsubscribe(t, q) /\ RecordCall(RegistryCall("unsubscribe", t, q))
    \/ \E p \in OneProducer, t \in UsedTypes : PublishAcquire(p, t) /\ RecordCall(NoRegistryCall)
    \/ \E p \in OneProducer : PublishCount(p) /\ RecordCall(NoRegistryCall)
    \/ \E p \in OneProducer : PublishPut(p) /\ RecordCall(NoRegistryCall)
    \/ \E p \in OneProducer : PublishReturn(p) /\ RecordCall(NoRegistryCall)
    \/ \E c \in Consumers : Get(c) /\ RecordCall(NoRegistryCall)

SpecCalls == Init /\ [][NextCalls]_vars

\* SpecCalls with the thread that calls get_stats.
NextFrame ==
    \/ \E t \in UsedTypes, q \in Consumers :
          Subscribe(t, q) /\ RecordCall(RegistryCall("subscribe", t, q))
    \/ \E t \in UsedTypes, q \in Consumers :
          Unsubscribe(t, q) /\ RecordCall(RegistryCall("unsubscribe", t, q))
    \/ \E p \in OneProducer, t \in UsedTypes : PublishAcquire(p, t) /\ RecordCall(NoRegistryCall)
    \/ \E p \in OneProducer : PublishCount(p) /\ RecordCall(NoRegistryCall)
    \/ \E p \in OneProducer : PublishPut(p) /\ RecordCall(NoRegistryCall)
    \/ \E p \in OneProducer : PublishReturn(p) /\ RecordCall(NoRegistryCall)
    \/ \E c \in Consumers : Get(c) /\ RecordCall(NoRegistryCall)
    \/ GetStats /\ RecordCall(NoRegistryCall)

SpecFrame == Init /\ [][NextFrame]_vars

\* ------------------------------------------------------------ properties
\* What a mailbox has shown of type t so far, oldest first: the last message
\* of type t its Consumer got, then the messages of type t it holds.
OfType(q, t) == SelectSeq(q, LAMBDA m : m.msg_type = t)

Observed(c, t) ==
    (IF seen[c][t] = NoMessage THEN <<>> ELSE <<seen[c][t]>>) \o OfType(message_queue[c], t)

\* The number of times message m is in mailbox c or in the hands of its
\* Consumer.
Occurrences(c, m) ==
    (IF got[c] = m THEN 1 ELSE 0)
    + Cardinality({i \in 1..Len(message_queue[c]) : message_queue[c][i] = m})

\* C1: total order per type.  In every mailbox the messages of one type come
\* in the order of their publish numbers, i.e. the order in which their
\* publish calls held the lock: the last message of the type the Consumer got
\* and the messages of the type in the queue have strictly increasing seq.
\* As every get moves the head of the queue to seen, this holds of the whole
\* sequence a mailbox receives, so two mailboxes never disagree on the order.
TotalOrderPerType ==
    \A c \in Consumers, t \in UsedTypes :
        \A i \in 1..(Len(Observed(c, t)) - 1) :
            Observed(c, t)[i].seq < Observed(c, t)[i + 1].seq

\* Both mailboxes have received two messages of one type, published by two
\* different Producers.
TotalOrderWitness ==
    \E t \in UsedTypes :
        \A c \in Consumers :
            /\ Len(Observed(c, t)) >= 2
            /\ Observed(c, t)[1].sender # Observed(c, t)[2].sender

\* C2: publish count.  message_count is the number of publish calls made,
\* less the call that holds the lock and has not stored its increment yet;
\* so when no call is in progress it equals the number of completed calls.
\* It never decreases.
InCount == {p \in Producers : pc[p] = "count"}

PublishCountExact ==
    [][ /\ message_count' = Calls' - Cardinality(InCount')
        /\ message_count' >= message_count ]_vars

\* Both Producers have published, all calls have returned and the counter
\* shows all of them.
PublishCountWitness ==
    /\ \A p \in Producers : pc[p] = "returned" /\ produced[p] >= 1
    /\ message_count = MaxPublish

\* C3: fan-out completeness.  When a publish of type t returns, its message
\* has been enqueued exactly once into every mailbox registered for t and
\* into no other mailbox.
FanOutComplete ==
    [][ \A p \in Producers :
          (pc[p] = "dispatch" /\ pc'[p] = "returned") =>
              \A c \in Consumers :
                  Occurrences(c, message[p]) =
                      IF Contains(SubscribersGet(subscribers, message[p].msg_type), c)
                      THEN 1 ELSE 0 ]_vars

\* A publish to two registered mailboxes has returned and the message is in
\* both; the other type has no subscriber.
FanOutWitness ==
    \E p \in Producers :
        /\ pc[p] = "returned"
        /\ Len(subscribers[message[p].msg_type]) = 2
        /\ \A c \in Consumers : Occurrences(c, message[p]) = 1
        /\ \E u \in UsedTypes : subscribers[u] = <<>>

\* C4: idempotent subscription.  A mailbox is at most once in the list of
\* every type, and no message is twice in a mailbox or in a mailbox and in
\* the hands of its Consumer.
NoDuplicates(s) == \A i, j \in 1..Len(s) : s[i] = s[j] => i = j

IdempotentSubscription ==
    /\ \A t \in MessageType : NoDuplicates(subscribers[t])
    /\ \A c \in Consumers :
          NoDuplicates((IF got[c] = NoMessage THEN <<>> ELSE <<got[c]>>)
                       \o message_queue[c])

\* A mailbox was subscribed to a type again while registered for it, and a
\* publish of that type made after that has done all its puts: the mailbox
\* has the message once.
IdempotentSubscriptionWitness ==
    \E x \in duplicated, p \in Producers :
        /\ pc[p] = "dispatch"
        /\ message[p].msg_type = x[1]
        /\ idx[p] > Len(subscribers[x[1]])
        /\ Occurrences(x[2], message[p]) = 1

\* C5: unsubscribe takes effect immediately.  From the return of
\* unsubscribe(t, q) until the next subscribe(t, q), no step enqueues a
\* message of type t into q.
Enqueued(q, t) ==
    /\ Len(message_queue'[q]) > Len(message_queue[q])
    /\ message_queue'[q][Len(message_queue'[q])].msg_type = t

UnsubscribeImmediate ==
    [][ \A x \in unsubscribed : ~Enqueued(x[2], x[1]) ]_vars

\* A mailbox that had received a message of a type was unsubscribed from it,
\* and a later publish of the type has delivered to the other mailbox and has
\* done with its loop.
UnsubscribeImmediateWitness ==
    \E x \in unsubscribed, p \in Producers :
        /\ seen[x[2]][x[1]] # NoMessage
        /\ pc[p] = "dispatch"
        /\ message[p].msg_type = x[1]
        /\ Len(subscribers[x[1]]) = 1
        /\ idx[p] > 1
        /\ Occurrences(x[2], message[p]) = 0

\* C6: backpressure.  While the mailbox a publish is about to put into holds
\* QueueMaxsize messages, the publish neither returns nor moves on, and the
\* mailbox loses nothing but its head to a get; a put happens only into a
\* mailbox with a free slot, and adds the message at the tail.
Target(p) == SubscribersGet(subscribers, message[p].msg_type)[idx[p]]

InLoop(p) ==
    /\ pc[p] = "dispatch"
    /\ idx[p] <= Len(SubscribersGet(subscribers, message[p].msg_type))

Backpressure ==
    [][ \A p \in Producers :
          InLoop(p) =>
            /\ Len(message_queue[Target(p)]) >= QueueMaxsize =>
                 /\ pc'[p] = "dispatch" /\ idx'[p] = idx[p] /\ lock' = p
                 /\ message'[p] = message[p]
                 /\ message_queue'[Target(p)] \in
                       {message_queue[Target(p)], Tail(message_queue[Target(p)])}
            /\ idx'[p] # idx[p] =>
                 /\ Len(message_queue[Target(p)]) < QueueMaxsize
                 /\ message_queue'[Target(p)] =
                       Append(message_queue[Target(p)], message[p]) ]_vars

\* A publish has returned whose message is the last of a full mailbox that
\* had been emptied by at least one get: the mailbox has taken more messages
\* than it can hold.
BackpressureWitness ==
    \E p \in Producers, c \in Consumers :
        /\ pc[p] = "returned"
        /\ Len(message_queue[c]) = QueueMaxsize
        /\ message_queue[c][QueueMaxsize] = message[p]
        /\ message[p].seq > QueueMaxsize
        /\ consumed[c] >= 1

\* C7: a slow subscriber does not block the bus for unrelated types.  While
\* a publish of type t waits for room in a full mailbox, a subscribe, an
\* unsubscribe or a get_stats call for another type can run, and so can a
\* publish of another type by a thread that is not publishing.
Blocked(p) == InLoop(p) /\ Len(message_queue[Target(p)]) >= QueueMaxsize

UnrelatedTypesNotBlocked ==
    \A p \in Producers :
        Blocked(p) =>
            \A u \in UsedTypes \ {message[p].msg_type} :
                /\ \A q \in Consumers : ENABLED Subscribe(u, q)
                /\ \A q \in Consumers : ENABLED Unsubscribe(u, q)
                /\ ENABLED GetStats
                /\ \A r \in Producers \ {p} :
                      (pc[r] \in {"idle", "returned"} /\ Calls < MaxPublish)
                          => ENABLED PublishAcquire(r, u)

\* C8: an invalid message type fails fast.  A call of subscribe, unsubscribe
\* or publish with a type outside MessageType ends with an exception, and no
\* publish of a message of such a type returns.
InvalidTypeFailsFast ==
    /\ lastInvalid.op # "none" => lastInvalid.outcome = "raised"
    /\ \A p \in Producers : pc[p] = "returned" => message[p].msg_type \in MessageType

\* C9: consistent statistics.  The subscriber counts and the published count
\* the statistics thread ends with are those of one state of the bus.
StatsConsistent == stats_pc = "done" => matched

\* C10: mailbox FIFO in publish order.  The messages of one Producer leave a
\* mailbox in the order it published them (content counts its publishes): a
\* get takes the head of the queue, and along the last message got and the
\* queue the contents of a sender increase.  A get that ends with Empty found
\* the mailbox drained and changes neither the mailbox nor the bus nor the
\* Consumer's count.
Received(c) == (IF got[c] = NoMessage THEN <<>> ELSE <<got[c]>>) \o message_queue[c]

InPublishOrder(s) ==
    \A i, j \in 1..Len(s) :
        (i < j /\ s[i].sender = s[j].sender) => s[i].content < s[j].content

Published(p, n) ==
    \/ n < produced[p]
    \/ n = produced[p] /\ (pc[p] = "returned" \/ (pc[p] = "dispatch" /\ idx[p] > 1))

Derived(n) ==
    {i \in 1..Len(message_queue[MailboxB]) :
        /\ message_queue[MailboxB][i].msg_type = output_type
        /\ message_queue[MailboxB][i].content = NewContent(n)}

PipelineExactlyOnce ==
    \A p \in OneProducer :
        /\ \A n \in 1..ConsumerCount :
              /\ Cardinality(Derived(n)) <= 1
              /\ Derived(n) # {} => Published(p, n)
              /\ (pc[ProcessingConsumer] = "finished" /\ Published(p, n))
                    => Cardinality(Derived(n)) = 1
        /\ \A i \in 1..Len(message_queue[MailboxB]) :
              \E n \in 1..ConsumerCount : i \in Derived(n)

\* C12: every publish runs to completion.  A publish that waits for room in
\* a full mailbox is never stuck: the Consumer of that mailbox is still in
\* its loop and will take a message.  (Only a get of that Consumer frees a
\* slot: the bus never drains a mailbox, and unsubscribe needs the lock the
\* waiting publish holds.)
PublishCompletes ==
    \A p \in Producers :
        Blocked(p) => consumed[Target(p)] < ConsumerCount

\* C15: Consumer completion.  Every Consumer ends: once the Producer has made
\* all its publishes and a Consumer has emptied its mailbox, so that every
\* further get of it times out, the Consumer has left its loop (it has
\* processed its count, or its timeout policy has declared it done).
ProducersDone ==
    \A p \in OneProducer : produced[p] = OverflowCount /\ pc[p] = "returned"

ConsumerCompletion ==
    \A c \in Consumers :
        (ProducersDone /\ message_queue[c] = <<>> /\ last_get[c] = Empty)
            => consumed[c] >= ConsumerCount

\* C13: mutual exclusion of the registry.  At most one publish is inside its
\* with-block, and it is the owner of the lock; while it is inside, from the
\* increment of the counter to its last put, no subscribe or unsubscribe
\* changes any subscriber list and get_stats cannot read them, so the list it
\* dispatches to is the list of the instant it took the lock; every change
\* of a list happens with the lock free and no publish inside.
InSection(p) == pc[p] \in {"count", "dispatch"}

MutualExclusion ==
    [][ /\ \A p, r \in Producers : (InSection(p) /\ InSection(r)) => p = r
        /\ \A p \in Producers :
              InSection(p) =>
                  /\ lock = p
                  /\ subscribers' = subscribers
                  /\ ~ENABLED GetStats
        /\ subscribers' # subscribers =>
              /\ lock = Free /\ lock' = Free
              /\ \A p \in Producers : ~InSection(p) ]_vars

\* A publish waits inside its with-block for room in the mailbox the publish
\* of the other Producer has filled, while the other mailbox is not
\* registered for any type: its subscribe call has to wait outside.
MutualExclusionWitness ==
    \E p, r \in Producers, c \in Consumers :
        /\ p # r
        /\ Blocked(p)
        /\ pc[r] = "returned"
        /\ \A t \in UsedTypes : ~Contains(subscribers[t], c)

\* C14: duplicate subscribe and redundant unsubscribe are no-ops.  A call
\* subscribe(t, q) made while q is in the list of t, and a call
\* unsubscribe(t, q) made while q is not in it, raise no error and leave
\* every subscriber list (and its order), the published counter, every
\* mailbox and the lock as they were; so the second of two equal calls in a
\* row changes nothing.
NoOpCalls ==
    [][ \A t \in UsedTypes, q \in Consumers :
          /\ ( /\ called'.op = "subscribe" /\ called'.msg_type = t /\ called'.queue = q
               /\ Contains(subscribers[t], q) )
               => /\ LookupOutcome(t) = "returned"
                  /\ UNCHANGED <<subscribers, message_count, message_queue, lock>>
          /\ ( /\ called'.op = "unsubscribe" /\ called'.msg_type = t /\ called'.queue = q
               /\ ~Contains(subscribers[t], q) )
               => /\ LookupOutcome(t) = "returned"
                  /\ UNCHANGED <<subscribers, message_count, message_queue, lock>> ]_vars

\* subscribe was called for a queue that was the first of two in the list of
\* its type, after a publish had counted and the queue held a message.
NoOpCallsWitness ==
    /\ called.op = "subscribe"
    /\ called.present
    /\ Len(subscribers[called.msg_type]) = 2
    /\ subscribers[called.msg_type][1] = called.queue
    /\ message_queue[called.queue] # <<>>
    /\ message_count >= 1

\* C16: registry frame.  A step that is no subscribe or unsubscribe call (a
\* step of publish, get_stats, a get) changes no subscriber list.  A call
\* subscribe(t, q) or unsubscribe(t, q) changes no list but that of t, nor the
\* published counter, nor any mailbox; in the list of t subscribe removes
\* nothing and adds at most q, unsubscribe adds nothing and removes at most
\* q, so an entry leaves a list only by the unsubscribe call for it.  A
\* mailbox loses a message only to the get of its Consumer, never to the bus.
Removed(t) == Range(subscribers[t]) \ Range(subscribers'[t])

Added(t) == Range(subscribers'[t]) \ Range(subscribers[t])

RegistryFrame ==
    [][ /\ called'.op = "none" => subscribers' = subscribers
        /\ called'.op # "none" =>
              /\ \A u \in MessageType \ {called'.msg_type} :
                    subscribers'[u] = subscribers[u]
              /\ message_count' = message_count
              /\ message_queue' = message_queue
        /\ called'.op = "subscribe" =>
              /\ Removed(called'.msg_type) = {}
              /\ Added(called'.msg_type) \subseteq {called'.queue}
        /\ called'.op = "unsubscribe" =>
              /\ Added(called'.msg_type) = {}
              /\ Removed(called'.msg_type) \subseteq {called'.queue}
        /\ \A t \in MessageType :
              Removed(t) # {} =>
                  /\ called'.op = "unsubscribe" /\ called'.msg_type = t
                  /\ Removed(t) = {called'.queue}
        /\ \A c \in Consumers :
              message_queue'[c] # message_queue[c] =>
                  \/ /\ message_queue[c] # <<>>
                     /\ message_queue'[c] = Tail(message_queue[c])
                     /\ got'[c] = Head(message_queue[c])
                     /\ consumed'[c] = consumed[c] + 1
                  \/ /\ Len(message_queue'[c]) = Len(message_queue[c]) + 1
                     /\ SubSeq(message_queue'[c], 1, Len(message_queue[c]))
                           = message_queue[c] ]_vars

\* unsubscribe has just taken a queue out of the list of one type while the
\* queue is registered for the other type and holds a message, a publish has
\* counted and get_stats has returned.
RegistryFrameWitness ==
    /\ called.op = "unsubscribe"
    /\ called.present
    /\ \E u \in UsedTypes \ {called.msg_type} : Contains(subscribers[u], called.queue)
    /\ message_queue[called.queue] # <<>>
    /\ message_count >= 1
    /\ stats_pc = "printed"

\* C17: dispatch follows insertion order.  A subscriber list changes only by
\* a new queue added at its end or by one queue taken out with the others
\* keeping their order, so a list is in the order of the subscribe calls; and
\* a publish that is at position i of the list of its type (waiting for room
\* in a full mailbox or not) has put its message into every mailbox before
\* position i and into none from position i on.
Without(s, x) == SelectSeq(s, LAMBDA y : y # x)

DispatchedPrefix(p) ==
    pc[p] = "dispatch" =>
        \A j \in 1..Len(subscribers[message[p].msg_type]) :
            Occurrences(subscribers[message[p].msg_type][j], message[p])
                = IF j < idx[p] THEN 1 ELSE 0

InsertionOrder ==
    [][ /\ \A t \in MessageType :
              \/ subscribers'[t] = subscribers[t]
              \/ \E q \in Consumers :
                    /\ ~Contains(subscribers[t], q)
                    /\ subscribers'[t] = subscribers[t] \o <<q>>
              \/ \E q \in Consumers :
                    /\ Contains(subscribers[t], q)
                    /\ subscribers'[t] = Without(subscribers[t], q)
        /\ \A p \in Producers : DispatchedPrefix(p)' ]_vars

\* A publish waits at the second position of the list of its type: the
\* mailbox subscribed first holds the message, the mailbox subscribed second
\* is full of an earlier message and does not.
InsertionOrderWitness ==
    \E p \in Producers :
        /\ Blocked(p)
        /\ idx[p] = 2
        /\ Len(subscribers[message[p].msg_type]) = 2
        /\ Occurrences(subscribers[message[p].msg_type][1], message[p]) = 1
        /\ Occurrences(subscribers[message[p].msg_type][2], message[p]) = 0

\* C18: bounded mailbox occupancy.  No mailbox ever holds more messages than
\* its capacity.
BoundedOccupancy ==
    \A c \in Consumers : Len(message_queue[c]) <= QueueMaxsize

\* Every mailbox is at its capacity, one of them is registered for both
\* types, and a publish waits for room in it while the other Producer has
\* published.
BoundedOccupancyWitness ==
    /\ \A c \in Consumers : Len(message_queue[c]) = QueueMaxsize
    /\ \E p, r \in Producers :
          /\ p # r
          /\ Blocked(p)
          /\ produced[r] >= 1
          /\ \A t \in UsedTypes : Contains(subscribers[t], Target(p))

\* C19: delivery conservation.  For every mailbox, the number of messages
\* its Consumer has taken plus the number it holds grows by exactly one with
\* every put a publish makes into it and never changes otherwise; every put
\* adds the message of the publish at the tail of a mailbox that is in the
\* list of the message's type (the list as it was when the publish took the
\* lock), and nothing but a put adds a message: a subscribe replays nothing.
Delivered(c) == consumed[c] + Len(message_queue[c])

PutsInto(c) ==
    {p \in Producers : InLoop(p) /\ Target(p) = c /\ idx'[p] = idx[p] + 1}

DeliveryConservation ==
    [][ \A c \in Consumers :
          /\ Delivered(c)' = Delivered(c) + Cardinality(PutsInto(c))
          /\ \A p \in PutsInto(c) :
                /\ message_queue'[c] = Append(message_queue[c], message[p])
                /\ Contains(subscribers[message[p].msg_type], c)
          /\ PutsInto(c) = {} =>
                \/ message_queue'[c] = message_queue[c]
                \/ /\ message_queue[c] # <<>>
                   /\ message_queue'[c] = Tail(message_queue[c])
                   /\ got'[c] = Head(message_queue[c]) ]_vars

\* All publishes are made and have returned; one mailbox has received them
\* all and its Consumer has taken one; the other mailbox is registered for
\* both types and has received one only: it was not registered for the type
\* of the other message when that was published.
DeliveryConservationWitness ==
    \E c, d \in Consumers :
        /\ \A p \in Producers : pc[p] = "returned"
        /\ message_count = MaxPublish
        /\ Delivered(c) = MaxPublish /\ consumed[c] >= 1
        /\ Delivered(d) = 1
        /\ \A t \in UsedTypes : Contains(subscribers[t], d)

\* C20: single global delivery order across types.  Every mailbox receives
\* its messages, of whatever types, in the order of their publish numbers:
\* the last message its Consumer got and the messages it holds have strictly
\* increasing seq.  So two mailboxes registered for the same two types
\* receive the messages of both types in one and the same order, that of the
\* published counter.
GlobalDeliveryOrder ==
    \A c \in Consumers :
        \A i \in 1..(Len(Received(c)) - 1) :
            Received(c)[i].seq < Received(c)[i + 1].seq

\* Both mailboxes are registered for both types and each has received a
\* message of one type and then a message of the other type, from two
\* Producers.
GlobalDeliveryOrderWitness ==
    /\ \A t \in UsedTypes, c \in Consumers : Contains(subscribers[t], c)
    /\ \A c \in Consumers :
          /\ Len(Received(c)) = 2
          /\ Received(c)[1].msg_type # Received(c)[2].msg_type
          /\ Received(c)[1].sender # Received(c)[2].sender
====
